---------------------------- MODULE Spec2Model ----------------------------
(***************************************************************************)
(* A model of the chart viewport controller (withChartViewport /           *)
(* ChartViewport in src/src/components/shared/chart/Viewport.js).          *)
(*                                                                         *)
(* Numbers.  JavaScript numbers are modelled as exact rationals, records   *)
(* [n |-> numerator, d |-> denominator] in lowest terms with d > 0, so     *)
(* that equal values are equal records.  Rounding of IEEE doubles is not   *)
(* modelled, and neither are the non-finite values: the environment never  *)
(* produces a division by zero (the committed range has non-zero length,   *)
(* a measured container is wider than its two margins together).           *)
(*                                                                         *)
(* setState is modelled as taking effect at once: every handler here runs  *)
(* from a native listener, an animation frame or a lifecycle method.       *)
(***************************************************************************)
EXTENDS Integers, Sequences, FiniteSets, TLC

(***************************************************************************)
(* Exact rational arithmetic.                                              *)
(***************************************************************************)
Abs(x) == IF x < 0 THEN -x ELSE x

RECURSIVE GCD(_, _)
GCD(a, b) == IF b = 0 THEN a ELSE GCD(b, a % b)

\* The rational n/d (d # 0) in lowest terms with a positive denominator.
Q(n, d) ==
  LET g == GCD(Abs(n), Abs(d))
      s == IF d < 0 THEN -1 ELSE 1
  IN  [n |-> (s * n) \div g, d |-> (s * d) \div g]

I(k) == [n |-> k, d |-> 1]
Zero == I(0)
One == I(1)

QAdd(a, b) == Q(a.n * b.d + b.n * a.d, a.d * b.d)
QSub(a, b) == Q(a.n * b.d - b.n * a.d, a.d * b.d)
QMul(a, b) == Q(a.n * b.n, a.d * b.d)
QDiv(a, b) == Q(a.n * b.d, a.d * b.n)
QLt(a, b) == a.n * b.d < b.n * a.d
QLe(a, b) == a.n * b.d <= b.n * a.d
QMin(a, b) == IF QLe(a, b) THEN a ELSE b
QMax(a, b) == IF QLe(a, b) THEN b ELSE a

RECURSIVE Pow2(_)
Pow2(k) == IF k = 0 THEN 1 ELSE 2 * Pow2(k - 1)


(***************************************************************************)
(* Program constants.                                                      *)
(***************************************************************************)
DOM_DELTA_LINE == 1
DOM_DELTA_PAGE == 2
KEYBOARD_NAVIGATION_SPEED == 2000
MAX_KEYBOARD_DELTA == 500
PINCH_ZOOM_FACTOR == 3
SCROLL_LINE_SIZE == 15
\* ZOOM_SPEED = 1.003 doubles the zoom every 231 pixels of wheel delta
\* (1.003^231 = 1.9976).
ZOOM_DOUBLING_DELTA == 231

NavigationKey == {"zoomIn", "zoomOut", "up", "down", "left", "right"}

BareCodes ==
  {"KeyQ", "KeyY", "KeyE", "KeyU", "KeyW", "KeyK", "KeyS", "KeyJ", "KeyA",
   "KeyH", "KeyD", "KeyL"}

\* Mapping from keycode to navigation key when no modifiers are down.
BARE_KEYMAP(code) ==
  CASE code \in {"KeyQ", "KeyY"} -> "zoomIn"
    [] code \in {"KeyE", "KeyU"} -> "zoomOut"
    [] code \in {"KeyW", "KeyK"} -> "up"
    [] code \in {"KeyS", "KeyJ"} -> "down"
    [] code \in {"KeyA", "KeyH"} -> "left"
    [] code \in {"KeyD", "KeyL"} -> "right"
    [] OTHER -> "undefined"

\* Mapping from keycode to navigation key when the ctrl modifier is down.
CTRL_KEYMAP(code) ==
  CASE code = "ArrowUp" -> "zoomIn"
    [] code = "ArrowDown" -> "zoomOut"
    [] OTHER -> "undefined"

\* getObjectValuesAsUnion(CTRL_KEYMAP)
CtrlKeymapValues == {CTRL_KEYMAP(code) : code \in {"ArrowUp", "ArrowDown"}}

(***************************************************************************)
(* Pure functions of Viewport.js.                                          *)
(***************************************************************************)
\* clamp without its lower bound.
clampAbove(min, max, value) == QMin(max, value)

clamp(min, max, value) == QMax(min, QMin(max, value))

\* Math.pow(ZOOM_SPEED, delta), rounded to the nearest power of two: the
\* exponent is delta / 231 rounded to the nearest integer.
_deltaToZoomFactor(delta) ==
  LET e == (2 * delta + ZOOM_DOUBLING_DELTA) \div (2 * ZOOM_DOUBLING_DELTA)
  IN  IF e >= 0 THEN Q(Pow2(e), 1) ELSE Q(1, Pow2(-e))

\* getNormalizedScrollDelta reading deltaY whatever the key.
getNormalizedScrollDeltaOfY(event, pageHeight, key) ==
  CASE event.deltaMode = DOM_DELTA_PAGE -> event.deltaY * pageHeight
    [] event.deltaMode = DOM_DELTA_LINE -> event.deltaY * SCROLL_LINE_SIZE
    [] OTHER -> event.deltaY

getNormalizedScrollDelta(event, pageHeight, key) ==
  LET delta == IF key = "deltaY" THEN event.deltaY ELSE event.deltaX
  IN  CASE event.deltaMode = DOM_DELTA_PAGE -> delta * pageHeight
        [] event.deltaMode = DOM_DELTA_LINE -> delta * SCROLL_LINE_SIZE
        [] OTHER -> delta

NoSelection ==
  [hasSelection |-> FALSE, isModifying |-> FALSE,
   selectionStart |-> Zero, selectionEnd |-> Zero]

Selection(start, end) ==
  [hasSelection |-> TRUE, isModifying |-> FALSE,
   selectionStart |-> start, selectionEnd |-> end]

getHorizontalViewport(previewSelection, timeRange) ==
  IF previewSelection.hasSelection
    THEN LET timeRangeLength == I(timeRange.end - timeRange.start)
         IN  [viewportLeft |->
                QDiv(QSub(previewSelection.selectionStart, I(timeRange.start)),
                     timeRangeLength),
              viewportRight |->
                QDiv(QSub(previewSelection.selectionEnd, I(timeRange.start)),
                     timeRangeLength)]
    ELSE [viewportLeft |-> Zero, viewportRight |-> One]

(***************************************************************************)
(* The queued transforms.  A closure is the record of what it captured:    *)
(* zoomRangeSelection's captures center, zoomFactor and maximumZoom and    *)
(* reads the committed range when it runs; moveViewport's captures         *)
(* offsetX, containerWidth and the committed range of the time it was      *)
(* queued.                                                                 *)
(***************************************************************************)
ZoomUpdate(center, zoomFactor, maximumZoom) ==
  [type |-> "zoom", center |-> center, zoomFactor |-> zoomFactor,
   maximumZoom |-> maximumZoom, offsetX |-> 0, containerWidth |-> 1,
   timeRange |-> [start |-> 0, end |-> 1]]

PanUpdate(offsetX, containerWidth, timeRange) ==
  [type |-> "pan", center |-> Zero, zoomFactor |-> One, maximumZoom |-> One,
   offsetX |-> offsetX, containerWidth |-> containerWidth,
   timeRange |-> timeRange]

\* The selection for a window, measured from time 0 instead of the start of
\* the committed range.
WindowSelectionUnshifted(left, right, timeRange) ==
  LET timeRangeLength == I(timeRange.end - timeRange.start)
  IN  Selection(QMul(timeRangeLength, left), QMul(timeRangeLength, right))

\* The selection a transform returns for the window [left, right] of the
\* committed range timeRange.
WindowSelection(left, right, timeRange) ==
  LET timeRangeLength == I(timeRange.end - timeRange.start)
  IN  Selection(QAdd(I(timeRange.start), QMul(timeRangeLength, left)),
                QAdd(I(timeRange.start), QMul(timeRangeLength, right)))

\* zoomRangeSelection's callback with the new length kept below the whole
\* range only, not above maximumZoom.
ZoomWindowAnyLength(u, vp) ==
  LET viewportLength == QSub(vp.viewportRight, vp.viewportLeft)
      newViewportLength == clamp(Zero, One, QMul(viewportLength, u.zoomFactor))
      deltaViewportLength == QSub(newViewportLength, viewportLength)
  IN  [viewportLeft |->
         clamp(Zero, QSub(One, newViewportLength),
               QSub(vp.viewportLeft, QMul(deltaViewportLength, u.center))),
       viewportRight |->
         clamp(newViewportLength, One,
               QAdd(vp.viewportRight,
                    QMul(deltaViewportLength, QSub(One, u.center))))]

\* zoomRangeSelection's callback growing or shrinking the window at its
\* right edge only.
ZoomWindowFromLeft(u, vp) ==
  LET viewportLength == QSub(vp.viewportRight, vp.viewportLeft)
      newViewportLength ==
        clamp(u.maximumZoom, One, QMul(viewportLength, u.zoomFactor))
      newViewportLeft ==
        clamp(Zero, QSub(One, newViewportLength), vp.viewportLeft)
  IN  [viewportLeft |-> newViewportLeft,
       viewportRight |-> QAdd(newViewportLeft, newViewportLength)]

\* zoomRangeSelection's callback with neither edge kept inside the range.
ZoomWindowUnclamped(u, vp) ==
  LET viewportLength == QSub(vp.viewportRight, vp.viewportLeft)
      newViewportLength ==
        clamp(u.maximumZoom, One, QMul(viewportLength, u.zoomFactor))
      deltaViewportLength == QSub(newViewportLength, viewportLength)
  IN  [viewportLeft |->
         QSub(vp.viewportLeft, QMul(deltaViewportLength, u.center)),
       viewportRight |->
         QAdd(vp.viewportRight,
              QMul(deltaViewportLength, QSub(One, u.center)))]

\* The window the callback of zoomRangeSelection computes from a horizontal
\* viewport: newViewportLeft and newViewportRight.
ZoomWindow(u, vp) ==
  LET viewportLength == QSub(vp.viewportRight, vp.viewportLeft)
      newViewportLength ==
        clamp(u.maximumZoom, One, QMul(viewportLength, u.zoomFactor))
      deltaViewportLength == QSub(newViewportLength, viewportLength)
  IN  [viewportLeft |->
         clamp(Zero, QSub(One, newViewportLength),
               QSub(vp.viewportLeft, QMul(deltaViewportLength, u.center))),
       viewportRight |->
         clamp(newViewportLength, One,
               QAdd(vp.viewportRight,
                    QMul(deltaViewportLength, QSub(One, u.center))))]

\* zoomRangeSelection's callback without the test for the whole range.
ZoomCallbackAlwaysSelecting(u, vp, timeRange) ==
  WindowSelection(ZoomWindow(u, vp).viewportLeft,
                  ZoomWindow(u, vp).viewportRight, timeRange)

\* The callback zoomRangeSelection queues; timeRange is
\* this.props.viewportProps.timeRange when the callback runs.
ZoomCallback(u, vp, timeRange) ==
  LET new == ZoomWindow(u, vp)
  IN  IF new.viewportLeft = Zero /\ new.viewportRight = One
        THEN NoSelection
        ELSE WindowSelection(new.viewportLeft, new.viewportRight, timeRange)

\* moveViewport's callback with each edge clamped on its own.
PanWindowCropping(u, vp) ==
  LET viewportLength == QSub(vp.viewportRight, vp.viewportLeft)
      unitOffsetX ==
        QDiv(QMul(viewportLength, I(u.offsetX)), I(u.containerWidth))
  IN  [viewportLeft |-> clamp(Zero, One, QSub(vp.viewportLeft, unitOffsetX)),
       viewportRight |-> clamp(Zero, One, QSub(vp.viewportRight, unitOffsetX))]

\* The window the callback of moveViewport computes from a horizontal
\* viewport narrower than the committed range.
PanWindow(u, vp) ==
  LET viewportLength == QSub(vp.viewportRight, vp.viewportLeft)
      unitOffsetX ==
        QDiv(QMul(viewportLength, I(u.offsetX)), I(u.containerWidth))
      left0 == QSub(vp.viewportLeft, unitOffsetX)
      right0 == QSub(vp.viewportRight, unitOffsetX)
      left1 == IF QLt(left0, Zero) THEN Zero ELSE left0
      right1 == IF QLt(left0, Zero) THEN viewportLength ELSE right0
  IN  [viewportLeft |->
         IF QLt(One, right1) THEN QSub(One, viewportLength) ELSE left1,
       viewportRight |-> IF QLt(One, right1) THEN One ELSE right1]

\* The callback moveViewport queues.
PanCallback(u, vp) ==
  LET viewportLength == QSub(vp.viewportRight, vp.viewportLeft)
      new == PanWindow(u, vp)
  IN  IF QLe(One, viewportLength)
        THEN NoSelection
        ELSE WindowSelection(new.viewportLeft, new.viewportRight, u.timeRange)

ApplyCallback(u, vp, timeRange) ==
  IF u.type = "zoom" THEN ZoomCallback(u, vp, timeRange) ELSE PanCallback(u, vp)

\* The window a callback's result stands for: the one it computed, or the
\* whole committed range when it returns no selection.
ResultWindow(u, vp, result) ==
  IF ~result.hasSelection THEN [viewportLeft |-> Zero, viewportRight |-> One]
  ELSE IF u.type = "zoom" THEN ZoomWindow(u, vp)
  ELSE PanWindow(u, vp)

(***************************************************************************)
(* The component.                                                          *)
(*   props    this.props: the viewportProps and the connected props        *)
(*   state    this.state                                                   *)
(*   self     the instance fields: _pendingPreviewSelectionUpdates,        *)
(*            _keysDown (a Set iterates in insertion order: a sequence     *)
(*            without repetition), _lastKeyboardNavigationFrame,           *)
(*            zoomScrollId, and mounted (_container is set)                *)
(*   browser  the page: the requestAnimationFrame callbacks not yet run,   *)
(*            the setTimeout timers not yet fired (their scrollId), the    *)
(*            window listeners, the container's bounding rectangle, the    *)
(*            clock (performance.now(), in ms), the sources of the events  *)
(*            of this behaviour, the number of props updates so far and    *)
(*            whether one of them committed a new range, and whether the   *)
(*            mouse button is held down since a mouse-down on the chart,   *)
(*            and the mouse-move events of the drag in progress that the   *)
(*            mousemove listener took (the last one only)                  *)
(*   obs      what the last step did: the event, the selections passed to  *)
(*            updatePreviewSelection, the transforms a flush applied, and  *)
(*            the number of setHasZoomedViaMousewheel dispatches, and the  *)
(*            calls of moveViewport with the state before and after each,  *)
(*            and the deltas _keyboardNavigation computed, and the key     *)
(*            events _keyUpListener took with _keysDown before each, and   *)
(*            the props updates received: what viewportNeedsUpdate         *)
(*            answered and which props were new objects                    *)
(***************************************************************************)
VARIABLES props, state, self, browser, obs

vars == <<props, state, self, browser, obs>>

\* The component and its surroundings as one value, threaded through the
\* handlers.
This == [props |-> props, state |-> state, self |-> self,
         browser |-> browser, obs |-> obs]

NoObs(event) == [event |-> event, calls |-> <<>>, applied |-> <<>>,
                 flagDispatches |-> 0, moves |-> <<>>, deltas |-> <<>>,
                 keys |-> <<>>, received |-> <<>>]

requestAnimationFrame(c, callback) ==
  [c EXCEPT !.browser.raf = Append(@, callback)]

getDefaultState(p) ==
  [containerWidth |-> 0,
   containerHeight |-> 0,
   containerLeft |-> 0,
   viewportTop |-> 0,
   viewportBottom |-> IF p.startsAtBottom THEN p.maxViewportHeight ELSE 0,
   horizontalViewport |-> getHorizontalViewport(p.previewSelection, p.timeRange),
   dragX |-> 0,
   dragY |-> 0,
   isDragging |-> FALSE,
   isScrollHintVisible |-> FALSE,
   isSizeSet |-> FALSE]

_setSizeNextFrame(c) == requestAnimationFrame(c, "_setSize")

\* _setSize leaving viewportBottom alone.
_setSizeKeepingBottom(c) ==
  LET rect == c.browser.rect
      prevState == c.state
  IN  IF c.self.mounted
         /\ (prevState.containerWidth # rect.width
             \/ prevState.containerHeight # rect.height)
        THEN [c EXCEPT
               !.state.containerWidth = rect.width,
               !.state.containerHeight = rect.height,
               !.state.containerLeft = rect.left,
               !.state.isSizeSet = TRUE]
        ELSE c

_setSize(c) ==
  LET rect == c.browser.rect
      startsAtBottom == c.props.startsAtBottom
      prevState == c.state
  IN  IF c.self.mounted
         /\ (prevState.containerWidth # rect.width
             \/ prevState.containerHeight # rect.height)
        THEN [c EXCEPT
               !.state.containerWidth = rect.width,
               !.state.containerHeight = rect.height,
               !.state.containerLeft = rect.left,
               !.state.viewportBottom =
                 IF startsAtBottom THEN prevState.viewportBottom
                 ELSE prevState.viewportTop + rect.height,
               !.state.viewportTop =
                 IF startsAtBottom THEN prevState.viewportBottom - rect.height
                 ELSE prevState.viewportTop,
               !.state.isSizeSet = TRUE]
        ELSE c

\* newProps replace this.props when the method returns.  The comparisons of
\* the source are of object identity: changed names the props whose object
\* differs, needsUpdate is what viewportNeedsUpdate answers.
\* UNSAFE_componentWillReceiveProps recomputing the horizontal viewport where
\* it resets the state.
UNSAFE_componentWillReceivePropsKeepingState(c, newProps, needsUpdate, changed) ==
  LET c1 ==
        IF needsUpdate
             \/ "previewSelection" \in changed \/ "timeRange" \in changed
          THEN [c EXCEPT !.state.horizontalViewport =
                  getHorizontalViewport(newProps.previewSelection,
                                        newProps.timeRange)]
        ELSE IF c.props.panelLayoutGeneration # newProps.panelLayoutGeneration
          THEN _setSizeNextFrame(c)
        ELSE c
  IN  [c1 EXCEPT !.props = newProps,
                 !.obs.received = Append(@, [needsUpdate |-> needsUpdate,
                                             changed |-> changed])]

UNSAFE_componentWillReceiveProps(c, newProps, needsUpdate, changed) ==
  LET c1 ==
        IF needsUpdate
          THEN _setSizeNextFrame([c EXCEPT !.state = getDefaultState(newProps)])
        ELSE IF "previewSelection" \in changed \/ "timeRange" \in changed
          THEN [c EXCEPT !.state.horizontalViewport =
                  getHorizontalViewport(newProps.previewSelection,
                                        newProps.timeRange)]
        ELSE IF c.props.panelLayoutGeneration # newProps.panelLayoutGeneration
          THEN _setSizeNextFrame(c)
        ELSE c
  IN  [c1 EXCEPT !.props = newProps,
                 !.obs.received = Append(@, [needsUpdate |-> needsUpdate,
                                             changed |-> changed])]

\* The host's updatePreviewSelection: the store takes the selection and the
\* component receives it as a new previewSelection prop.
updatePreviewSelection(c, selection) ==
  UNSAFE_componentWillReceiveProps(
    [c EXCEPT !.obs.calls = Append(@, selection)],
    [c.props EXCEPT !.previewSelection = selection],
    FALSE, {"previewSelection"})

\* The host's setHasZoomedViaMousewheel.
setHasZoomedViaMousewheel(c) ==
  UNSAFE_componentWillReceiveProps(
    [c EXCEPT !.obs.flagDispatches = @ + 1],
    [c.props EXCEPT !.hasZoomedViaMousewheel = TRUE],
    FALSE, {})

\* showScrollingHint without the test of hasZoomedViaMousewheel.
showScrollingHintAlways(c) ==
  LET scrollId == c.self.zoomScrollId + 1
  IN  [c EXCEPT !.self.zoomScrollId = scrollId,
                !.state.isScrollHintVisible = TRUE,
                !.browser.timers = Append(@, scrollId)]

showScrollingHint(c) ==
  IF c.props.hasZoomedViaMousewheel
    THEN c
    ELSE LET scrollId == c.self.zoomScrollId + 1
         IN  [c EXCEPT !.self.zoomScrollId = scrollId,
                       !.state.isScrollHintVisible = TRUE,
                       !.browser.timers = Append(@, scrollId)]

\* The setTimeout callback hiding the hint whichever wheel event set it.
HintTimeoutOfAny(c, scrollId) ==
  [c EXCEPT !.state.isScrollHintVisible = FALSE]

\* The setTimeout callback of showScrollingHint.
HintTimeout(c, scrollId) ==
  IF scrollId = c.self.zoomScrollId
    THEN [c EXCEPT !.state.isScrollHintVisible = FALSE]
    ELSE c

_addBatchedPreviewSelectionUpdate(c, callback) ==
  LET c1 == IF Len(c.self.pending) = 0
              THEN requestAnimationFrame(c, "_flushPendingPreviewSelectionUpdates")
              ELSE c
  IN  [c1 EXCEPT !.self.pending = Append(@, callback)]

\* The loop of the flush with every callback given the viewport of the
\* selection the loop started from.
FoldPendingFromStart(pendingUpdates, i, nextSelection, timeRange, applied) ==
  LET horizontalViewport == getHorizontalViewport(nextSelection, timeRange)
      results == [k \in 1..Len(pendingUpdates) |->
                    ApplyCallback(pendingUpdates[k], horizontalViewport, timeRange)]
  IN  [selection |-> IF Len(pendingUpdates) = 0 THEN nextSelection
                     ELSE results[Len(pendingUpdates)],
       applied |-> [k \in 1..Len(pendingUpdates) |->
                      [update |-> pendingUpdates[k],
                       before |-> horizontalViewport,
                       result |-> results[k],
                       window |-> ResultWindow(pendingUpdates[k],
                                               horizontalViewport, results[k])]]]

\* The loop of _flushPendingPreviewSelectionUpdates: the selection after the
\* callbacks of pendingUpdates from index i on, and what each was given and
\* returned.
RECURSIVE FoldPending(_, _, _, _, _)
FoldPending(pendingUpdates, i, nextSelection, timeRange, applied) ==
  IF i > Len(pendingUpdates)
    THEN [selection |-> nextSelection, applied |-> applied]
    ELSE LET horizontalViewport == getHorizontalViewport(nextSelection, timeRange)
             result == ApplyCallback(pendingUpdates[i], horizontalViewport, timeRange)
         IN  FoldPending(pendingUpdates, i + 1, result, timeRange,
                         Append(applied,
                                [update |-> pendingUpdates[i],
                                 before |-> horizontalViewport,
                                 result |-> result,
                                 window |-> ResultWindow(pendingUpdates[i],
                                                         horizontalViewport,
                                                         result)]))

\* The flush handing every callback's result to updatePreviewSelection.
RECURSIVE UpdateEach(_, _, _)
UpdateEach(c, applied, i) ==
  IF i > Len(applied) THEN c
  ELSE UpdateEach(updatePreviewSelection(c, applied[i].result), applied, i + 1)

_flushUpdatingEach(c) ==
  IF Len(c.self.pending) # 0
    THEN LET folded == FoldPending(c.self.pending, 1, c.props.previewSelection,
                                   c.props.timeRange, <<>>)
         IN  UpdateEach([c EXCEPT !.self.pending = <<>>,
                                  !.obs.applied = @ \o folded.applied],
                        folded.applied, 1)
    ELSE c

_flushPendingPreviewSelectionUpdates(c) ==
  IF Len(c.self.pending) # 0
    THEN LET pendingUpdates == c.self.pending
             folded == FoldPending(pendingUpdates, 1, c.props.previewSelection,
                                   c.props.timeRange, <<>>)
             c1 == [c EXCEPT !.self.pending = <<>>,
                             !.obs.applied = @ \o folded.applied]
         IN  updatePreviewSelection(c1, folded.selection)
    ELSE c

\* zoomRangeSelection without the test of disableHorizontalMovement.
zoomRangeSelectionAlways(c, center, zoomFactor) ==
  _addBatchedPreviewSelectionUpdate(
    c, ZoomUpdate(center, zoomFactor, c.props.maximumZoom))

zoomRangeSelection(c, center, zoomFactor) ==
  IF c.props.disableHorizontalMovement
    THEN c
    ELSE _addBatchedPreviewSelectionUpdate(
           c, ZoomUpdate(center, zoomFactor, c.props.maximumZoom))

zoomWithMouseWheel(c, event, zoomModifier) ==
  LET c1 == IF ~c.props.hasZoomedViaMousewheel
              THEN setHasZoomedViaMousewheel(c) ELSE c
      deltaY == getNormalizedScrollDelta(
                  event, c1.state.containerHeight,
                  IF event.deltaY = 0 THEN "deltaX" ELSE "deltaY")
      zoomFactor == _deltaToZoomFactor(deltaY * zoomModifier)
      innerContainerWidth ==
        c1.state.containerWidth - c.props.marginLeft - c.props.marginRight
      mouseCenter ==
        Q(event.clientX - c1.state.containerLeft - c.props.marginLeft,
          innerContainerWidth)
  IN  zoomRangeSelection(c1, mouseCenter, zoomFactor)

\* moveViewport without the test of isSizeSet.
moveViewportUnsized(c, offsetX, offsetY) ==
  LET maxViewportHeight == c.props.maxViewportHeight
      containerHeight == c.state.containerHeight
      viewportTop == c.state.viewportTop
      top0 == viewportTop - offsetY
      bottom0 == top0 + containerHeight
      newViewportTop ==
        IF maxViewportHeight < containerHeight
          THEN IF c.props.startsAtBottom
                 THEN maxViewportHeight - containerHeight ELSE 0
        ELSE IF bottom0 > maxViewportHeight
          THEN maxViewportHeight - containerHeight
        ELSE IF top0 < 0 THEN 0
        ELSE top0
      newViewportBottom ==
        IF maxViewportHeight < containerHeight
          THEN IF c.props.startsAtBottom
                 THEN maxViewportHeight ELSE containerHeight
        ELSE IF bottom0 > maxViewportHeight THEN maxViewportHeight
        ELSE IF top0 < 0 THEN containerHeight
        ELSE bottom0
      c1 == IF newViewportTop # viewportTop
              THEN [c EXCEPT !.state.viewportTop = newViewportTop,
                             !.state.viewportBottom = newViewportBottom]
              ELSE c
      c2 == IF ~c.props.disableHorizontalMovement
              THEN _addBatchedPreviewSelectionUpdate(
                     c1, PanUpdate(offsetX, c.state.containerWidth,
                                   c.props.timeRange))
            ELSE c1
  IN  [c2 EXCEPT !.obs.moves =
         Append(@, [offsetX |-> offsetX, offsetY |-> offsetY,
                    before |-> c.state, after |-> c2.state,
                    queued |-> Len(c2.self.pending) - Len(c.self.pending)])]

\* moveViewport without the constraint to the top.
moveViewportBeyondTop(c, offsetX, offsetY) ==
  LET maxViewportHeight == c.props.maxViewportHeight
      containerHeight == c.state.containerHeight
      viewportTop == c.state.viewportTop
      top0 == viewportTop - offsetY
      bottom0 == top0 + containerHeight
      newViewportTop ==
        IF maxViewportHeight < containerHeight
          THEN IF c.props.startsAtBottom
                 THEN maxViewportHeight - containerHeight ELSE 0
        ELSE IF bottom0 > maxViewportHeight
          THEN maxViewportHeight - containerHeight
        ELSE top0
      newViewportBottom ==
        IF maxViewportHeight < containerHeight
          THEN IF c.props.startsAtBottom
                 THEN maxViewportHeight ELSE containerHeight
        ELSE IF bottom0 > maxViewportHeight THEN maxViewportHeight
        ELSE bottom0
      c1 == IF newViewportTop # viewportTop
              THEN [c EXCEPT !.state.viewportTop = newViewportTop,
                             !.state.viewportBottom = newViewportBottom]
              ELSE c
      c2 == IF ~c.state.isSizeSet
              THEN c
            ELSE IF ~c.props.disableHorizontalMovement
              THEN _addBatchedPreviewSelectionUpdate(
                     c1, PanUpdate(offsetX, c.state.containerWidth,
                                   c.props.timeRange))
            ELSE c1
  IN  [c2 EXCEPT !.obs.moves =
         Append(@, [offsetX |-> offsetX, offsetY |-> offsetY,
                    before |-> c.state, after |-> c2.state,
                    queued |-> Len(c2.self.pending) - Len(c.self.pending)])]

moveViewport(c, offsetX, offsetY) ==
  LET maxViewportHeight == c.props.maxViewportHeight
      containerHeight == c.state.containerHeight
      viewportTop == c.state.viewportTop
      top0 == viewportTop - offsetY
      bottom0 == top0 + containerHeight
      newViewportTop ==
        IF maxViewportHeight < containerHeight
          THEN IF c.props.startsAtBottom
                 THEN maxViewportHeight - containerHeight ELSE 0
        ELSE IF bottom0 > maxViewportHeight
          THEN maxViewportHeight - containerHeight
        ELSE IF top0 < 0 THEN 0
        ELSE top0
      newViewportBottom ==
        IF maxViewportHeight < containerHeight
          THEN IF c.props.startsAtBottom
                 THEN maxViewportHeight ELSE containerHeight
        ELSE IF bottom0 > maxViewportHeight THEN maxViewportHeight
        ELSE IF top0 < 0 THEN containerHeight
        ELSE bottom0
      c1 == IF newViewportTop # viewportTop
              THEN [c EXCEPT !.state.viewportTop = newViewportTop,
                             !.state.viewportBottom = newViewportBottom]
              ELSE c
      c2 == IF ~c.state.isSizeSet
              THEN c
            ELSE IF ~c.props.disableHorizontalMovement
              THEN _addBatchedPreviewSelectionUpdate(
                     c1, PanUpdate(offsetX, c.state.containerWidth,
                                   c.props.timeRange))
            ELSE c1
  IN  [c2 EXCEPT !.obs.moves =
         Append(@, [offsetX |-> offsetX, offsetY |-> offsetY,
                    before |-> c.state, after |-> c2.state,
                    queued |-> Len(c2.self.pending) - Len(c.self.pending)])]

_mouseWheelListener(c, event) ==
  IF event.ctrlKey \/ event.shiftKey
    THEN IF ~c.props.disableHorizontalMovement
           THEN zoomWithMouseWheel(
                  c, event, IF event.ctrlKey THEN PINCH_ZOOM_FACTOR ELSE 1)
           ELSE c
    ELSE LET c1 == IF ~c.props.disableHorizontalMovement
                     THEN showScrollingHint(c) ELSE c
             containerHeight == c1.state.containerHeight
         IN  moveViewport(
               c1,
               -getNormalizedScrollDelta(event, containerHeight, "deltaX"),
               -getNormalizedScrollDelta(event, containerHeight, "deltaY"))

_mouseDownListener(c) ==
  [c EXCEPT !.browser.listeners = @ \cup {"mousemove", "mouseup"}]

_mouseMoveListener(c, event) ==
  LET dragX == IF ~c.state.isDragging THEN event.clientX ELSE c.state.dragX
      dragY == IF ~c.state.isDragging THEN event.clientY ELSE c.state.dragY
      offsetX == event.clientX - dragX
      offsetY == event.clientY - dragY
      c1 == [c EXCEPT !.state.dragX = event.clientX,
                      !.state.dragY = event.clientY,
                      !.state.isDragging = TRUE]
  IN  moveViewport(c1, offsetX, offsetY)

\* _mouseUpListener leaving the mousemove listener on the window.
_mouseUpListenerKeepingMove(c) ==
  [c EXCEPT !.browser.listeners = @ \ {"mouseup"},
            !.state.isDragging = FALSE]

_mouseUpListener(c) ==
  [c EXCEPT !.browser.listeners = @ \ {"mousemove", "mouseup"},
            !.state.isDragging = FALSE]

\* Set.prototype.add and Set.prototype.delete on the insertion-ordered set.
SetAdd(seq, x) ==
  IF \E i \in 1..Len(seq) : seq[i] = x THEN seq ELSE Append(seq, x)

SetDelete(seq, x) == SelectSeq(seq, LAMBDA y : y # x)

_keyDownListener(c, event) ==
  LET navigationKey ==
        IF ~event.ctrlKey /\ ~event.shiftKey /\ ~event.altKey /\ ~event.metaKey
          THEN BARE_KEYMAP(event.code)
        ELSE IF event.ctrlKey THEN CTRL_KEYMAP(event.code)
        ELSE "undefined"
      c1 == IF Len(c.self.keysDown) = 0
              THEN [requestAnimationFrame(c, "_keyboardNavigation") EXCEPT
                      !.self.lastKeyboardNavigationFrame = c.browser.now]
              ELSE c
  IN  IF navigationKey # "undefined"
        THEN [c1 EXCEPT !.self.keysDown = SetAdd(@, navigationKey)]
        ELSE c

\* _keyUpListener deleting only the keys of the released code.
_keyUpListenerOfCode(c, event) ==
  LET keys1 == SetDelete(c.self.keysDown, CTRL_KEYMAP(event.code))
  IN  [c EXCEPT !.self.keysDown = SetDelete(keys1, BARE_KEYMAP(event.code)),
                !.obs.keys = Append(@, [event |-> event,
                                        before |-> c.self.keysDown])]

_keyUpListener(c, event) ==
  LET keys0 == IF ~event.ctrlKey
                 THEN SelectSeq(c.self.keysDown,
                                LAMBDA k : k \notin CtrlKeymapValues)
                 ELSE c.self.keysDown
      keys1 == SetDelete(keys0, CTRL_KEYMAP(event.code))
  IN  [c EXCEPT !.self.keysDown = SetDelete(keys1, BARE_KEYMAP(event.code)),
                !.obs.keys = Append(@, [event |-> event,
                                        before |-> c.self.keysDown])]

\* One iteration of the loop of _keyboardNavigation.
NavigateKey(c, navigationKey, delta) ==
  CASE navigationKey = "zoomIn" ->
         zoomRangeSelection(c, Q(1, 2), _deltaToZoomFactor(-delta))
    [] navigationKey = "zoomOut" ->
         zoomRangeSelection(c, Q(1, 2), _deltaToZoomFactor(delta))
    [] navigationKey = "up" -> moveViewport(c, 0, delta)
    [] navigationKey = "down" -> moveViewport(c, 0, -delta)
    [] navigationKey = "left" -> moveViewport(c, delta, 0)
    [] navigationKey = "right" -> moveViewport(c, -delta, 0)

RECURSIVE NavigateKeys(_, _, _, _)
NavigateKeys(c, keys, i, delta) ==
  IF i > Len(keys) THEN c
  ELSE NavigateKeys(NavigateKey(c, keys[i], delta), keys, i + 1, delta)

Min(a, b) == IF a <= b THEN a ELSE b

\* _keyboardNavigation requesting the next frame whether keys are down or not.
_keyboardNavigationForever(c, timestamp) ==
  LET delta ==
        Min((KEYBOARD_NAVIGATION_SPEED
             * (timestamp - c.self.lastKeyboardNavigationFrame)) \div 1000,
            MAX_KEYBOARD_DELTA)
      c1 == [c EXCEPT !.self.lastKeyboardNavigationFrame = timestamp]
      c2 == NavigateKeys(c1, c1.self.keysDown, 1, delta)
  IN  requestAnimationFrame(c2, "_keyboardNavigation")

\* _keyboardNavigation without the cap on the delta.
_keyboardNavigationUncapped(c, timestamp) ==
  IF Len(c.self.keysDown) = 0
    THEN c
    ELSE LET delta ==
               (KEYBOARD_NAVIGATION_SPEED
                * (timestamp - c.self.lastKeyboardNavigationFrame)) \div 1000
             c1 == [c EXCEPT !.self.lastKeyboardNavigationFrame = timestamp,
                             !.obs.deltas =
                               Append(@, [delta |-> delta,
                                          elapsed |-> timestamp -
                                            c.self.lastKeyboardNavigationFrame])]
             c2 == NavigateKeys(c1, c1.self.keysDown, 1, delta)
         IN  requestAnimationFrame(c2, "_keyboardNavigation")

_keyboardNavigation(c, timestamp) ==
  IF Len(c.self.keysDown) = 0
    THEN c
    ELSE LET delta ==
               Min((KEYBOARD_NAVIGATION_SPEED
                    * (timestamp - c.self.lastKeyboardNavigationFrame)) \div 1000,
                   MAX_KEYBOARD_DELTA)
             c1 == [c EXCEPT !.self.lastKeyboardNavigationFrame = timestamp,
                             !.obs.deltas =
                               Append(@, [delta |-> delta,
                                          elapsed |-> timestamp -
                                            c.self.lastKeyboardNavigationFrame])]
             c2 == NavigateKeys(c1, c1.self.keysDown, 1, delta)
         IN  requestAnimationFrame(c2, "_keyboardNavigation")

componentDidMount(c) ==
  _setSizeNextFrame(_setSize([c EXCEPT !.self.mounted = TRUE]))

\* What render makes of the props and the state: the class names of the
\* container and of the scroll hint, and the viewport handed to the chart.
render(c) ==
  [dragging |-> c.state.isDragging,
   hidden |-> c.props.hasZoomedViaMousewheel \/ ~c.state.isScrollHintVisible,
   viewport |-> [containerWidth |-> c.state.containerWidth,
                 containerHeight |-> c.state.containerHeight,
                 viewportLeft |-> c.state.horizontalViewport.viewportLeft,
                 viewportRight |-> c.state.horizontalViewport.viewportRight,
                 viewportTop |-> c.state.viewportTop,
                 viewportBottom |-> c.state.viewportBottom,
                 isDragging |-> c.state.isDragging,
                 isSizeSet |-> c.state.isSizeSet]]

\* A requestAnimationFrame callback, run with the frame's timestamp.
RunCallback(c, callback, timestamp) ==
  CASE callback = "_flushPendingPreviewSelectionUpdates" ->
         _flushPendingPreviewSelectionUpdates(c)
    [] callback = "_keyboardNavigation" -> _keyboardNavigation(c, timestamp)
    [] callback = "_setSize" -> _setSize(c)

\* The browser runs the callbacks requested before the frame in the order of
\* their requests; what they request runs in the next frame.
RECURSIVE RunCallbacks(_, _, _, _)
RunCallbacks(c, callbacks, i, timestamp) ==
  IF i > Len(callbacks) THEN c
  ELSE RunCallbacks(RunCallback(c, callbacks[i], timestamp), callbacks, i + 1,
                    timestamp)

RunFrame(c, timestamp) ==
  RunCallbacks([c EXCEPT !.browser.raf = <<>>, !.browser.now = timestamp],
               c.browser.raf, 1, timestamp)

(***************************************************************************)
(* The bounds of the model and the inputs the environment draws.           *)
(***************************************************************************)
\* Input events are not taken while this many transforms are queued.
MaxPending == 2
\* At most this many navigation keys are held at once.
MaxKeys == 2
\* Events that request an animation frame are not taken while this many
\* callbacks wait for the next frame.
MaxRaf == 2
\* zoomScrollId does not count beyond this.
MaxScrollId == 2
\* panelLayoutGeneration does not count beyond this.
MaxGeneration == 1
\* The clock stops advancing at this time (ms).
MaxTime == 300
\* The host renders the component with new props at most this many times.
MaxPropsUpdates == 1

\* Where the events of one behaviour come from, besides the browser's frames
\* and timers: one input device, alone or with the window or the host.
Scenarios ==
  {{"wheel"}, {"mouse"}, {"keyboard"}, {"window"}, {"host"},
   {"window", "mouse"}, {"host", "mouse"}}

FrameSteps == {0, 100, 300}

TimeRanges == {[start |-> 0, end |-> 4], [start |-> 2, end |-> 10]}

\* The preview selections the host may hold for a committed range: none, or
\* a selection inside the range with start < end.
HostSelections(timeRange) ==
  {NoSelection,
   Selection(Q(3 * timeRange.start + timeRange.end, 4),
             Q(timeRange.start + 3 * timeRange.end, 4)),
   Selection(Q(2 * timeRange.start + 1, 2), I(timeRange.start + 1))}

\* The container is 8 pixels wide, 2 of them margin on either side.  It is
\* lower than the chart (maxViewportHeight is 3) until a layout change makes
\* it higher.
InitialRect == [width |-> 8, height |-> 2, left |-> 0]

Rects ==
  {[width |-> 8, height |-> 2, left |-> 0],
   [width |-> 8, height |-> 4, left |-> 0]}

WheelEvents ==
  {[ctrlKey |-> FALSE, shiftKey |-> TRUE, deltaMode |-> 0,
    deltaX |-> 0, deltaY |-> -231, clientX |-> 4],
   [ctrlKey |-> FALSE, shiftKey |-> TRUE, deltaMode |-> 0,
    deltaX |-> 231, deltaY |-> 0, clientX |-> 10],
   [ctrlKey |-> TRUE, shiftKey |-> FALSE, deltaMode |-> DOM_DELTA_LINE,
    deltaX |-> 0, deltaY |-> -15, clientX |-> 1],
   [ctrlKey |-> FALSE, shiftKey |-> FALSE, deltaMode |-> 0,
    deltaX |-> 2, deltaY |-> -1, clientX |-> 4],
   [ctrlKey |-> FALSE, shiftKey |-> FALSE, deltaMode |-> DOM_DELTA_PAGE,
    deltaX |-> -2, deltaY |-> 1, clientX |-> 4]}

MouseEvents == {[clientX |-> 0, clientY |-> 0], [clientX |-> 6, clientY |-> 1]}

KeyEvents ==
  {[code |-> code, ctrlKey |-> ctrl, shiftKey |-> FALSE, altKey |-> FALSE,
    metaKey |-> FALSE] :
     code \in {"KeyQ", "KeyW", "ArrowDown"}, ctrl \in BOOLEAN}

(***************************************************************************)
(* The state after construction.                                           *)
(***************************************************************************)
\* The charts the component is built for: maximumZoom, startsAtBottom and
\* disableHorizontalMovement.
Configurations ==
  {<<Q(1, 4), FALSE, FALSE>>, <<Q(1, 4), TRUE, FALSE>>,
   <<One, FALSE, FALSE>>, <<One, TRUE, TRUE>>}

InitialProps ==
  {[timeRange |-> timeRange,
    previewSelection |-> previewSelection,
    maximumZoom |-> configuration[1],
    maxViewportHeight |-> 3,
    startsAtBottom |-> configuration[2],
    disableHorizontalMovement |-> configuration[3],
    marginLeft |-> 2,
    marginRight |-> 2,
    panelLayoutGeneration |-> 0,
    hasZoomedViaMousewheel |-> FALSE] :
     timeRange \in {[start |-> 2, end |-> 10]},
     previewSelection \in UNION {HostSelections(r) : r \in TimeRanges},
     configuration \in Configurations}

Init ==
  /\ props \in {p \in InitialProps :
                  p.previewSelection \in HostSelections(p.timeRange)}
  /\ state = getDefaultState(props)
  /\ self = [pending |-> <<>>, keysDown |-> <<>>,
             lastKeyboardNavigationFrame |-> 0, zoomScrollId |-> 0,
             mounted |-> FALSE]
  /\ browser \in {[raf |-> <<>>, timers |-> <<>>, listeners |-> {},
                   rect |-> InitialRect, now |-> 0, sources |-> sources,
                   propsUpdates |-> 0, rangeCommitted |-> FALSE,
                   buttonDown |-> FALSE, lastMove |-> <<>>] :
                    sources \in Scenarios}
  /\ obs = NoObs("constructor")

(***************************************************************************)
(* The steps.  Each is one event handled to its end.                       *)
(***************************************************************************)
Start(event) == [This EXCEPT !.obs = NoObs(event)]

Commit(c) ==
  /\ props' = c.props
  /\ state' = c.state
  /\ self' = c.self
  /\ browser' = c.browser
  /\ obs' = c.obs

\* An event is not taken when it would grow one of these beyond its bound.
WithinBounds(c) ==
  /\ Len(c.browser.raf) > Len(browser.raf) => Len(c.browser.raf) <= MaxRaf
  /\ c.self.zoomScrollId <= MaxScrollId
  /\ Len(c.self.keysDown) > Len(self.keysDown) =>
       Len(c.self.keysDown) <= MaxKeys

Mount ==
  /\ ~self.mounted
  /\ Commit(componentDidMount(Start("componentDidMount")))

Wheel ==
  /\ self.mounted
  /\ "wheel" \in browser.sources
  /\ Len(self.pending) < MaxPending
  /\ \E event \in WheelEvents :
       /\ state.containerWidth - props.marginLeft - props.marginRight # 0
       /\ LET c == _mouseWheelListener(Start("wheel"), event)
          IN  WithinBounds(c) /\ Commit(c)

MouseDown ==
  /\ self.mounted
  /\ "mouse" \in browser.sources
  /\ Commit(_mouseDownListener([Start("mousedown") EXCEPT
                                  !.browser.buttonDown = TRUE,
                                  !.browser.lastMove =
                                    IF browser.buttonDown THEN @ ELSE <<>>]))

\* A mouse move anywhere in the window reaches the component only while its
\* mousemove listener is installed.
MouseMove ==
  /\ self.mounted
  /\ "mouse" \in browser.sources
  /\ Len(self.pending) < MaxPending
  /\ \E event \in MouseEvents :
       LET c0 == Start("mousemove")
           c == IF "mousemove" \in browser.listeners
                  THEN _mouseMoveListener(
                         [c0 EXCEPT !.browser.lastMove = <<event>>], event)
                  ELSE c0
       IN  WithinBounds(c) /\ Commit(c)

MouseUp ==
  /\ self.mounted
  /\ "mouse" \in browser.sources
  /\ LET c0 == [Start("mouseup") EXCEPT !.browser.buttonDown = FALSE,
                                        !.browser.lastMove = <<>>]
     IN  Commit(IF "mouseup" \in browser.listeners
                  THEN _mouseUpListener(c0) ELSE c0)

KeyDown ==
  /\ self.mounted
  /\ "keyboard" \in browser.sources
  /\ \E event \in KeyEvents :
       LET c == _keyDownListener(Start("keydown"), event)
       IN  WithinBounds(c) /\ Commit(c)

KeyUp ==
  /\ self.mounted
  /\ "keyboard" \in browser.sources
  /\ \E event \in KeyEvents :
       Commit(_keyUpListener(Start("keyup"), event))

\* Only _keyDownListener and _keyboardNavigation read the clock, and only
\* the time from one of them to the next matters: the clock of the model
\* advances in the frames that run _keyboardNavigation.
AnimationFrame ==
  /\ Len(browser.raf) > 0
  /\ \E step \in FrameSteps :
       /\ browser.now + step <= MaxTime
       /\ step # 0 => \E i \in 1..Len(browser.raf) :
                        browser.raf[i] = "_keyboardNavigation"
       /\ Commit(RunFrame(Start("animationFrame"), browser.now + step))

\* Timers of equal delay fire in the order they were set.
Timeout ==
  /\ Len(browser.timers) > 0
  /\ Commit(HintTimeout([Start("timeout") EXCEPT !.browser.timers = Tail(@)],
                        Head(browser.timers)))

\* The window's resize event; the container may have a new rectangle.
WindowResize ==
  /\ self.mounted
  /\ "window" \in browser.sources
  /\ \E rect \in Rects :
       LET c == _setSizeNextFrame([Start("resize") EXCEPT !.browser.rect = rect])
       IN  WithinBounds(c) /\ Commit(c)

\* The host renders the component with new props.  A newly committed range
\* comes with the preview selection cleared; a new panel layout may come
\* with a new rectangle of the container.
ReceiveProps ==
  /\ self.mounted
  /\ "host" \in browser.sources
  /\ browser.propsUpdates < MaxPropsUpdates
  /\ \E changed \in SUBSET {"previewSelection", "timeRange", "panelLayoutGeneration"},
        needsUpdate \in BOOLEAN, timeRange \in TimeRanges, rect \in Rects :
       /\ "timeRange" \in changed => "previewSelection" \in changed
       /\ "timeRange" \notin changed => timeRange = props.timeRange
       /\ "panelLayoutGeneration" \in changed =>
            props.panelLayoutGeneration < MaxGeneration
       /\ "panelLayoutGeneration" \notin changed => rect = browser.rect
       /\ \E previewSelection \in HostSelections(timeRange) :
            /\ "previewSelection" \notin changed =>
                 previewSelection = props.previewSelection
            /\ "timeRange" \in changed => previewSelection = NoSelection
            /\ LET newProps ==
                     [props EXCEPT
                        !.timeRange = timeRange,
                        !.previewSelection = previewSelection,
                        !.panelLayoutGeneration =
                          IF "panelLayoutGeneration" \in changed
                            THEN @ + 1 ELSE @]
                   c == UNSAFE_componentWillReceiveProps(
                          [Start("props") EXCEPT
                             !.browser.rect = rect,
                             !.browser.propsUpdates = @ + 1,
                             !.browser.rangeCommitted =
                               @ \/ "timeRange" \in changed],
                          newProps, needsUpdate, changed)
               IN  WithinBounds(c) /\ Commit(c)

Next ==
  \/ Mount
  \/ Wheel
  \/ MouseDown
  \/ MouseMove
  \/ MouseUp
  \/ KeyDown
  \/ KeyUp
  \/ AnimationFrame
  \/ Timeout
  \/ WindowResize
  \/ ReceiveProps

Spec == Init /\ [][Next]_vars

\* The component under the wheel while the host commits a new range.  The
\* host's commit clears the preview selection and changes nothing else.
CommitInit ==
  /\ props \in {p \in InitialProps :
                  /\ p.previewSelection = NoSelection
                  /\ ~p.startsAtBottom
                  /\ ~p.disableHorizontalMovement}
  /\ state = getDefaultState(props)
  /\ self = [pending |-> <<>>, keysDown |-> <<>>,
             lastKeyboardNavigationFrame |-> 0, zoomScrollId |-> 0,
             mounted |-> FALSE]
  /\ browser = [raf |-> <<>>, timers |-> <<>>, listeners |-> {},
                rect |-> InitialRect, now |-> 0, sources |-> {"wheel"},
                propsUpdates |-> 0, rangeCommitted |-> FALSE,
                buttonDown |-> FALSE, lastMove |-> <<>>]
  /\ obs = NoObs("constructor")

CommitRange ==
  /\ self.mounted
  /\ browser.propsUpdates < MaxPropsUpdates
  /\ \E timeRange \in TimeRanges :
       Commit(UNSAFE_componentWillReceiveProps(
                [Start("props") EXCEPT !.browser.propsUpdates = @ + 1,
                                       !.browser.rangeCommitted = TRUE],
                [props EXCEPT !.timeRange = timeRange,
                              !.previewSelection = NoSelection],
                FALSE, {"timeRange", "previewSelection"}))

CommitNext ==
  \/ Mount
  \/ Wheel
  \/ AnimationFrame
  \/ Timeout
  \/ CommitRange

CommitSpec == CommitInit /\ [][CommitNext]_vars

\* getNormalizedScrollDelta on its own: wheel events of every deltaMode
\* (pixel 0, line 1, page 2 and a mode unknown to the function) with deltas
\* up to MaxScrollDelta either way, for both keys.
MaxScrollDelta == 2

ScrollEvents ==
  [deltaMode : 0..3,
   deltaX : -MaxScrollDelta..MaxScrollDelta,
   deltaY : -MaxScrollDelta..MaxScrollDelta]

PageHeights == {0, 2, 4}

ScrollInit ==
  /\ CommitInit
  /\ props.maximumZoom = One

ScrollCall ==
  /\ \E event \in ScrollEvents, pageHeight \in PageHeights,
        key \in {"deltaX", "deltaY"} :
       obs' = [event |-> "getNormalizedScrollDelta",
               wheel |-> event, pageHeight |-> pageHeight, key |-> key,
               result |-> getNormalizedScrollDelta(event, pageHeight, key)]
  /\ UNCHANGED <<props, state, self, browser>>

ScrollNext == ScrollCall

ScrollSpec == ScrollInit /\ [][ScrollNext]_vars

\* The component under the wheel alone.  The browser fires the timers that
\* were set.
HintInit ==
  /\ Init
  /\ browser.sources = {"wheel"}
  /\ props.previewSelection = NoSelection

HintNext ==
  \/ Mount
  \/ Wheel
  \/ AnimationFrame
  \/ Timeout

\* Weak fairness of the timers, WF_vars(Timeout), with what enables a timer
\* written out: a timer can fire exactly when one is set.
TimersFire ==
  []<>(Len(browser.timers) = 0) \/ []<><<Timeout>>_vars

HintSpec == HintInit /\ [][HintNext]_vars /\ TimersFire

(***************************************************************************)
(* The track context menu (TimelineTrackContextMenu).  The component has   *)
(* no state and no fields of its own: props holds the tracks the store     *)
(* hands it, obs the last toggle with the props before it and the actions  *)
(* it dispatched.  A process is a pid with its global track and its local  *)
(* tracks.                                                                 *)
(***************************************************************************)
\* The largest process has this many local tracks.
MaxLocalTracks == 3

Pids == {"p1", "p2"}

GlobalTrackOfPid(pid) == IF pid = "p1" THEN 0 ELSE 1

LocalTracksOfPid(pid) ==
  IF pid = "p1" THEN 0..(MaxLocalTracks - 1) ELSE 0..(MaxLocalTracks - 2)

\* The orders the local tracks of a process are shown in: by index, or
\* reversed.
LocalTrackOrders(pid) ==
  LET n == Cardinality(LocalTracksOfPid(pid))
  IN  {[k \in 1..n |-> k - 1], [k \in 1..n |-> n - k]}

\* The store's reducers for the three actions the toggle dispatches.
showGlobalTrack(p, trackIndex) ==
  [p EXCEPT !.hiddenGlobalTracks = @ \ {trackIndex}]

showLocalTrack(p, pid, trackIndex) ==
  [p EXCEPT !.hiddenLocalTracksByPid[pid] = @ \ {trackIndex}]

hideLocalTrack(p, pid, trackIndex) ==
  [p EXCEPT !.hiddenLocalTracksByPid[pid] = @ \cup {trackIndex}]

Dispatch(p, action) ==
  CASE action[1] = "showGlobalTrack" -> showGlobalTrack(p, action[2])
    [] action[1] = "showLocalTrack" -> showLocalTrack(p, action[2], action[3])
    [] action[1] = "hideLocalTrack" -> hideLocalTrack(p, action[2], action[3])

RECURSIVE DispatchAll(_, _, _)
DispatchAll(p, actions, i) ==
  IF i > Len(actions) THEN p
  ELSE DispatchAll(Dispatch(p, actions[i]), actions, i + 1)

\* _toggleLocalTrackVisibility toggling the track whether the global track
\* is hidden or not.
_toggleLocalTrackVisibilityPlain(p, data) ==
  IF data.trackIndex \in p.hiddenLocalTracksByPid[data.pid]
    THEN <<<<"showLocalTrack", data.pid, data.trackIndex>>>>
    ELSE <<<<"hideLocalTrack", data.pid, data.trackIndex>>>>

\* The actions _toggleLocalTrackVisibility dispatches, in order.  The props
\* are read once, before the first dispatch.
_toggleLocalTrackVisibility(p, data) ==
  LET trackIndex == data.trackIndex
      pid == data.pid
      globalTrackIndex == data.globalTrackIndex
      hiddenLocalTracks == p.hiddenLocalTracksByPid[pid]
      localTrackOrder == p.localTrackOrderByPid[pid]
  IN  IF globalTrackIndex \in p.hiddenGlobalTracks
        THEN <<<<"showGlobalTrack", globalTrackIndex>>>>
             \o [k \in 1..Len(localTrackOrder) |->
                   IF localTrackOrder[k] = trackIndex
                     THEN <<"showLocalTrack", pid, trackIndex>>
                     ELSE <<"hideLocalTrack", pid, localTrackOrder[k]>>]
        ELSE IF trackIndex \in hiddenLocalTracks
               THEN <<<<"showLocalTrack", pid, trackIndex>>>>
               ELSE <<<<"hideLocalTrack", pid, trackIndex>>>>

TrackInit ==
  /\ props \in [hiddenGlobalTracks : SUBSET {GlobalTrackOfPid(pid) : pid \in Pids},
                hiddenLocalTracksByPid :
                  {f \in [Pids -> SUBSET (0..(MaxLocalTracks - 1))] :
                     \A pid \in Pids : f[pid] \subseteq LocalTracksOfPid(pid)},
                localTrackOrderByPid :
                  {f \in [Pids -> UNION {LocalTrackOrders(pid) : pid \in Pids}] :
                     \A pid \in Pids : f[pid] \in LocalTrackOrders(pid)}]
  /\ state = <<>>
  /\ self = <<>>
  /\ browser = <<>>
  /\ obs = [event |-> "constructor"]

\* A click on the menu item of a local track.
ToggleLocalTrack ==
  /\ \E pid \in Pids :
       \E trackIndex \in LocalTracksOfPid(pid) :
         LET data == [pid |-> pid, trackIndex |-> trackIndex,
                      globalTrackIndex |-> GlobalTrackOfPid(pid)]
             dispatched == _toggleLocalTrackVisibility(props, data)
         IN  /\ props' = DispatchAll(props, dispatched, 1)
             /\ obs' = [event |-> "_toggleLocalTrackVisibility",
                        data |-> data, before |-> props,
                        dispatched |-> dispatched]
  /\ UNCHANGED <<state, self, browser>>

TrackNext == ToggleLocalTrack

TrackSpec == TrackInit /\ [][TrackNext]_vars

(***************************************************************************)
(* The hover preview of the screenshot track (HoverPreview).  props holds  *)
(* its width, the committed range and the screenshots, obs the last call   *)
(* of findScreenshotAtMouse.  An index of the screenshots array counts     *)
(* from 0; the result null is the empty sequence and an index i is <<i>>.  *)
(***************************************************************************)
\* A screenshot track has at most this many screenshots.
MaxScreenshots == 3

\* A loop from index i up.
RECURSIVE findScreenshotForwards(_, _, _)
findScreenshotForwards(screenshots, mouseTime, i) ==
  IF i > Len(screenshots) - 1 THEN <<>>
  ELSE IF QLe(screenshots[i + 1].start, mouseTime) THEN <<i>>
  ELSE findScreenshotForwards(screenshots, mouseTime, i + 1)

\* The loop of findScreenshotAtMouse, from index i down.
RECURSIVE findScreenshotBackwards(_, _, _)
findScreenshotBackwards(screenshots, mouseTime, i) ==
  IF i < 0 THEN <<>>
  ELSE IF QLe(screenshots[i + 1].start, mouseTime) THEN <<i>>
  ELSE findScreenshotBackwards(screenshots, mouseTime, i - 1)

\* findScreenshotAtMouse looping from the first screenshot up.
findScreenshotAtMouseFirst(p, offsetX) ==
  LET rangeLength == p.rangeEnd - p.rangeStart
      mouseTime == QAdd(QMul(Q(offsetX, p.width), I(rangeLength)),
                        I(p.rangeStart))
  IN  findScreenshotForwards(p.screenshots, mouseTime, 0)

findScreenshotAtMouse(p, offsetX) ==
  LET rangeLength == p.rangeEnd - p.rangeStart
      mouseTime == QAdd(QMul(Q(offsetX, p.width), I(rangeLength)),
                        I(p.rangeStart))
  IN  findScreenshotBackwards(p.screenshots, mouseTime, Len(p.screenshots) - 1)

\* The start times of the screenshots (ms).  The markers of the committed
\* range may start before it.
ScreenshotStarts == {0, 3, 4, 9}

ScreenshotTracks ==
  UNION {[1..n -> {[start |-> I(t)] : t \in ScreenshotStarts}] :
           n \in 0..MaxScreenshots}

ScreenshotInit ==
  /\ props \in {[width |-> 4, rangeStart |-> r.start, rangeEnd |-> r.end,
                 screenshots |-> screenshots] :
                  r \in TimeRanges, screenshots \in ScreenshotTracks}
  /\ state = <<>>
  /\ self = <<>>
  /\ browser = <<>>
  /\ obs = [event |-> "constructor"]

\* render with the mouse over the track, offsetX pixels from its left edge.
FindScreenshot ==
  /\ \E offsetX \in 0..props.width :
       obs' = [event |-> "findScreenshotAtMouse", offsetX |-> offsetX,
               result |-> findScreenshotAtMouse(props, offsetX)]
  /\ UNCHANGED <<props, state, self, browser>>

ScreenshotNext == FindScreenshot

ScreenshotSpec == ScreenshotInit /\ [][ScreenshotNext]_vars

\* The component under the keyboard alone.  The browser runs the frames that
\* were requested.
KeyboardInit ==
  /\ Init
  /\ browser.sources = {"keyboard"}
  /\ props.previewSelection = NoSelection

KeyboardNext ==
  \/ Mount
  \/ KeyDown
  \/ KeyUp
  \/ AnimationFrame

\* Weak fairness of the frames, WF_vars(AnimationFrame), with what enables a
\* frame written out: a frame is enabled exactly when one is requested.
FramesRun ==
  []<>(Len(browser.raf) = 0) \/ []<><<AnimationFrame>>_vars

KeyboardSpec == KeyboardInit /\ [][KeyboardNext]_vars /\ FramesRun

(***************************************************************************)
(* The properties.  obs.applied holds, for each transform the last step    *)
(* applied, the viewport it was given (before) and the window its result   *)
(* stands for (window).                                                    *)
(***************************************************************************)
Width(vp) == QSub(vp.viewportRight, vp.viewportLeft)

ValidViewport(vp) ==
  /\ QLe(Zero, vp.viewportLeft)
  /\ QLt(vp.viewportLeft, vp.viewportRight)
  /\ QLe(vp.viewportRight, One)

Applied == {obs.applied[i] : i \in 1..Len(obs.applied)}

Zooms == {a \in Applied : a.update.type = "zoom"}

Pans == {a \in Applied : a.update.type = "pan"}

\* C1: as long as the committed range is the one the component was built
\* with, after every event the horizontal viewport satisfies
\* 0 <= viewportLeft < viewportRight <= 1, and so does every viewport a
\* queued transform is given and every window it produces.
C1_ViewportWithinRange ==
  ~browser.rangeCommitted =>
    /\ ValidViewport(state.horizontalViewport)
    /\ \A a \in Applied : ValidViewport(a.before) /\ ValidViewport(a.window)

\* A frame has applied a zoom and a pan and left the viewport strictly inside
\* the committed range.
C1_Witness ==
  /\ ~browser.rangeCommitted
  /\ Zooms # {} /\ Pans # {}
  /\ QLt(Zero, state.horizontalViewport.viewportLeft)
  /\ QLt(state.horizontalViewport.viewportRight, One)

\* C2: once the size is set, viewportBottom - viewportTop equals
\* containerHeight, whether the chart starts at the bottom or not.
C2_ViewportHeightIsContainerHeight ==
  state.isSizeSet =>
    state.viewportBottom - state.viewportTop = state.containerHeight

\* A mouse move has scrolled the sized viewport away from where _setSize
\* put it.
C2_Witness ==
  /\ obs.event = "mousemove"
  /\ state.isSizeSet
  /\ state.viewportTop #
       (IF props.startsAtBottom
          THEN props.maxViewportHeight - state.containerHeight ELSE 0)

\* C3: the window a zoom produces is at least maximumZoom and at most 1
\* wide, whatever the viewport, the zoom factor and the center.
C3_ZoomWidthWithinLimits ==
  \A a \in Zooms :
    /\ QLe(a.update.maximumZoom, Width(a.window))
    /\ QLe(Width(a.window), One)

\* A zoom whose factor alone would have made the window narrower than
\* maximumZoom.
C3_Witness ==
  \E a \in Zooms :
    /\ ValidViewport(a.before)
    /\ QLt(QMul(Width(a.before), a.update.zoomFactor), a.update.maximumZoom)

\* The pan's offset in units of the committed range, and whether it pushes
\* the unclamped left edge below 0.
PanUnitOffset(a) ==
  QDiv(QMul(Width(a.before), I(a.update.offsetX)), I(a.update.containerWidth))

PushedBelowZero(a) ==
  QLt(QSub(a.before.viewportLeft, PanUnitOffset(a)), Zero)

QuarterToThreeQuarters == [viewportLeft |-> Q(1, 4), viewportRight |-> Q(3, 4)]

\* C4: the window a pan produces has viewportLeft >= 0, viewportRight <= 1
\* and the width of the viewport it was given; from [0.25, 0.75] a pan that
\* pushes the left edge below 0 produces [0, 0.5].
C4_PanKeepsWidthWithinRange ==
  \A a \in Pans :
    ValidViewport(a.before) =>
      /\ QLe(Zero, a.window.viewportLeft)
      /\ QLe(a.window.viewportRight, One)
      /\ Width(a.window) = Width(a.before)
      /\ (a.before = QuarterToThreeQuarters /\ PushedBelowZero(a)) =>
           a.window = [viewportLeft |-> Zero, viewportRight |-> Q(1, 2)]

\* A pan has pushed the left edge of [0.25, 0.75] below 0.
C4_Witness ==
  \E a \in Pans : a.before = QuarterToThreeQuarters /\ PushedBelowZero(a)
\* The position of the committed range shown at fraction c of the viewport.
Anchor(vp, c) == QAdd(vp.viewportLeft, QMul(c, Width(vp)))

\* The left edge a zoom would produce were the window not kept inside the
\* committed range, and whether that edge is inside it.
UnclampedLeft(a) ==
  QSub(a.before.viewportLeft,
       QMul(QSub(Width(a.window), Width(a.before)), a.update.center))

WithinEdges(a) ==
  /\ QLe(Zero, UnclampedLeft(a))
  /\ QLe(UnclampedLeft(a), QSub(One, Width(a.window)))

\* C5 as stated: every zoom keeps the position shown at its center:
\* oldLeft + c * oldLength = newLeft + c * newLength.
C5_EveryZoomKeepsAnchor ==
  \A a \in Zooms :
    Anchor(a.before, a.update.center) = Anchor(a.window, a.update.center)

\* C5: a zoom keeps the position shown at its center,
\* oldLeft + c * oldLength = newLeft + c * newLength, whenever the window of
\* the new length anchored at c lies inside the committed range.
C5_ZoomWithinEdgesKeepsAnchor ==
  \A a \in Zooms :
    WithinEdges(a) =>
      Anchor(a.before, a.update.center) = Anchor(a.window, a.update.center)

\* A zoom has changed the length of a window that stays inside the range,
\* anchored elsewhere than at the window's left edge.
C5_Witness ==
  \E a \in Zooms :
    /\ WithinEdges(a)
    /\ Width(a.window) # Width(a.before)
    /\ a.update.center # Zero

\* The window a transform computes, whatever it returns.
ComputedWindow(a) ==
  IF a.update.type = "zoom" THEN ZoomWindow(a.update, a.before)
  ELSE PanWindow(a.update, a.before)

\* Whether a selection covers the whole of timeRange.
SpansRange(selection, timeRange) ==
  /\ selection.hasSelection
  /\ QLe(selection.selectionStart, I(timeRange.start))
  /\ QLe(I(timeRange.end), selection.selectionEnd)

\* C6: a zoom or pan whose window is of full width returns no selection, and
\* no transform returns a selection spanning the whole committed range (for a
\* pan: the range committed when it was queued, if it still is).
C6_FullWidthIsNoSelection ==
  \A a \in Applied :
    /\ QLe(One, Width(ComputedWindow(a))) => ~a.result.hasSelection
    /\ (a.update.type = "zoom" \/ a.update.timeRange = props.timeRange) =>
         ~SpansRange(a.result, props.timeRange)

\* A zoom has widened a narrower viewport to the whole range.
C6_Witness ==
  \E a \in Zooms :
    /\ QLt(Width(a.before), One)
    /\ QLe(One, Width(ComputedWindow(a)))
    /\ ~a.result.hasSelection
Requested(callback) ==
  {i \in 1..Len(browser.raf) : browser.raf[i] = callback}

AppliedUpdates == [i \in 1..Len(obs.applied) |-> obs.applied[i].update]

\* C7: no handler of an input event calls updatePreviewSelection; a flush is
\* requested exactly once while transforms are queued; the frame after n >= 1
\* requests calls updatePreviewSelection exactly once, having applied all n.
C7_OneUpdatePerFrame ==
  /\ [](/\ obs.event # "animationFrame" => Len(obs.calls) = 0
        /\ Len(obs.calls) = (IF Len(obs.applied) > 0 THEN 1 ELSE 0)
        /\ Len(self.pending) > 0 =>
             Cardinality(Requested("_flushPendingPreviewSelectionUpdates")) = 1)
  /\ [][(obs'.event = "animationFrame" /\ Len(self.pending) > 0) =>
          /\ Len(obs'.calls) = 1
          /\ Len(AppliedUpdates') >= Len(self.pending)
          /\ SubSeq(AppliedUpdates', 1, Len(self.pending)) = self.pending]_vars

\* A frame has applied two transforms and called updatePreviewSelection once.
C7_Witness ==
  /\ obs.event = "animationFrame"
  /\ Len(obs.applied) >= 2
  /\ Len(obs.calls) = 1

\* The requests committed one by one: each transform is given the viewport
\* of the selection the one before it committed.
RECURSIVE CommitOneByOne(_, _, _, _)
CommitOneByOne(updates, i, previewSelection, timeRange) ==
  IF i > Len(updates) THEN previewSelection
  ELSE CommitOneByOne(
         updates, i + 1,
         ApplyCallback(updates[i],
                       getHorizontalViewport(previewSelection, timeRange),
                       timeRange),
         timeRange)

\* C8: the selection a flush emits is the left fold of the queued transforms
\* in the order of their requests from the host's preview selection at the
\* time of the flush: transform k is given the viewport of the result of
\* transform k - 1, and the selection emitted is the one committing the
\* requests one by one would end with.
C8_FlushIsLeftFold ==
  [][(obs'.event = "animationFrame" /\ Len(obs'.calls) > 0) =>
       /\ obs'.applied[1].before =
            getHorizontalViewport(props.previewSelection, props.timeRange)
       /\ \A k \in 2..Len(obs'.applied) :
            obs'.applied[k].before =
              getHorizontalViewport(obs'.applied[k - 1].result, props.timeRange)
       /\ obs'.calls[1] =
            CommitOneByOne(AppliedUpdates', 1, props.previewSelection,
                           props.timeRange)
       /\ props'.previewSelection = obs'.calls[1]]_vars

\* A flush has applied two transforms, the second to another viewport than
\* the first.
C8_Witness ==
  /\ obs.event = "animationFrame"
  /\ Len(obs.applied) >= 2
  /\ obs.applied[2].before # obs.applied[1].before
  /\ obs.calls = <<obs.applied[Len(obs.applied)].result>>

\* C9: a frame that runs _keyboardNavigation while no navigation key is down
\* queues no transform, leaves the viewport where it is and requests no
\* further frame; and when no key is down, then either a key goes down again
\* or eventually no _keyboardNavigation frame is requested.
C9_KeyboardLoopTerminates ==
  /\ [][(obs'.event = "animationFrame" /\ Len(self.keysDown) = 0
         /\ Requested("_keyboardNavigation") # {}) =>
          /\ Requested("_keyboardNavigation")' = {}
          /\ Len(self'.pending) = 0
          /\ state'.viewportTop = state.viewportTop
          /\ \A i \in 1..Len(obs'.applied) :
               \E j \in 1..Len(self.pending) :
                 obs'.applied[i].update = self.pending[j]]_vars
  /\ (Len(self.keysDown) = 0) ~>
       (Len(self.keysDown) > 0 \/ Requested("_keyboardNavigation") = {})

\* The last navigation key has gone up while a _keyboardNavigation frame is
\* requested.
C9_Witness ==
  /\ obs.event = "keyup"
  /\ Len(self.keysDown) = 0
  /\ Requested("_keyboardNavigation") # {}

DragListeners == {"mousemove", "mouseup"}

\* C10: once the mouse button is up again, the mousemove and mouseup
\* listeners are off the window and isDragging is false, and a mouse move
\* then changes nothing of the component's state and queues no transform.
C10_MouseUpEndsDrag ==
  /\ [](~browser.buttonDown =>
          /\ browser.listeners \cap DragListeners = {}
          /\ ~state.isDragging)
  /\ [][(obs'.event = "mousemove" /\ ~browser.buttonDown) =>
          /\ state' = state
          /\ self' = self
          /\ browser'.raf = browser.raf]_vars

\* A mouse-up has ended a drag that moved the viewport.
C10_Witness ==
  /\ obs.event = "mouseup"
  /\ ~browser.buttonDown
  /\ state.dragX # 0
  /\ ~state.isDragging
Moves == {obs.moves[i] : i \in 1..Len(obs.moves)}

\* C11: after every call of moveViewport, a container no higher than the
\* chart shows rows within it (viewportTop >= 0 and viewportBottom <=
\* maxViewportHeight), and a container higher than the chart is anchored to
\* the chart's bottom when startsAtBottom and to its top otherwise.
C11_VerticalMoveIsClamped ==
  \A m \in Moves :
    /\ m.after.containerHeight <= props.maxViewportHeight =>
         /\ m.after.viewportTop >= 0
         /\ m.after.viewportBottom <= props.maxViewportHeight
    /\ (m.before.isSizeSet
        /\ m.after.containerHeight > props.maxViewportHeight) =>
         IF props.startsAtBottom
           THEN m.after.viewportBottom = props.maxViewportHeight
           ELSE m.after.viewportTop = 0

\* A move of a sized viewport that would have shown rows above the chart's
\* top.
C11_Witness ==
  \E m \in Moves :
    /\ m.before.isSizeSet
    /\ m.after.containerHeight <= props.maxViewportHeight
    /\ m.before.viewportTop - m.offsetY < 0

\* A move in a container higher than the chart.
C11_AnchoredReached ==
  \E m \in Moves :
    /\ m.before.isSizeSet
    /\ m.after.containerHeight > props.maxViewportHeight
    /\ m.before.viewportTop # m.after.viewportTop
\* Whether a selection lies inside timeRange with start < end.
InsideRange(selection, timeRange) ==
  /\ QLe(I(timeRange.start), selection.selectionStart)
  /\ QLt(selection.selectionStart, selection.selectionEnd)
  /\ QLe(selection.selectionEnd, I(timeRange.end))

\* C12 as stated: every selection with hasSelection true that a flush emits
\* is the window of the last transform mapped through the range committed
\* at the time of the flush, and so lies inside that range with
\* selectionStart < selectionEnd, also when the range was committed after
\* the transforms were queued.
C12_EmittedSelectionInCommittedRange ==
  (obs.event = "animationFrame" /\ Len(obs.calls) = 1
   /\ obs.calls[1].hasSelection) =>
    /\ obs.calls[1] =
         WindowSelection(obs.applied[Len(obs.applied)].window.viewportLeft,
                         obs.applied[Len(obs.applied)].window.viewportRight,
                         props.timeRange)
    /\ InsideRange(obs.calls[1], props.timeRange)
\* The length a zoom gives the window: the old length times the zoom factor,
\* kept between maximumZoom and 1.
ClampedLength(a) ==
  QMax(a.update.maximumZoom,
       QMin(One, QMul(Width(a.before), a.update.zoomFactor)))

\* C13: for every center, also one left of the chart (center < 0) or right
\* of it (center > 1), and every zoom factor, the window zoomRangeSelection
\* computes has 0 <= newLeft, newRight <= 1 and newRight - newLeft equal to
\* the clamped new length.
C13_ZoomClampsForAnyCenter ==
  \A a \in Zooms :
    LET new == ZoomWindow(a.update, a.before)
    IN  /\ QLt(Zero, a.update.zoomFactor)
        /\ QLe(Zero, new.viewportLeft)
        /\ QLe(new.viewportRight, One)
        /\ Width(new) = ClampedLength(a)
        /\ a.window = new

\* A zoom centered right of the chart and one centered left of it have run.
C13_Witness ==
  /\ \E a \in Zooms : QLt(One, a.update.center)
  /\ \E a \in Zooms : QLt(a.update.center, Zero)
\* C14 as stated: every props update that changes panelLayoutGeneration
\* requests a frame for _setSize, whatever else changes with it.
C14_GenerationChangeSchedulesResize ==
  [][props'.panelLayoutGeneration # props.panelLayoutGeneration =>
       Cardinality(Requested("_setSize")') > Cardinality(Requested("_setSize"))]_vars
\* C15: setHasZoomedViaMousewheel is dispatched only by a wheel event and
\* only while hasZoomedViaMousewheel is false; while the flag is true the
\* scroll hint is rendered hidden, and a wheel event neither makes it visible
\* nor sets a timer for it.
C15_HintDismissedOnce ==
  /\ [](props.hasZoomedViaMousewheel => render(This).hidden)
  /\ [][/\ obs'.flagDispatches > 0 =>
             /\ obs'.event = "wheel"
             /\ obs'.flagDispatches = 1
             /\ ~props.hasZoomedViaMousewheel
             /\ props'.hasZoomedViaMousewheel
        /\ (props.hasZoomedViaMousewheel /\ obs'.event = "wheel") =>
             /\ state'.isScrollHintVisible = state.isScrollHintVisible
             /\ self'.zoomScrollId = self.zoomScrollId
             /\ browser'.timers = browser.timers
             /\ render(This).hidden']_vars

\* A wheel zoom has set the flag while the hint of an earlier wheel scroll
\* was showing.
C15_Witness ==
  /\ obs.event = "wheel"
  /\ obs.flagDispatches = 1
  /\ props.hasZoomedViaMousewheel
  /\ state.isScrollHintVisible

\* An unmodified wheel scroll has panned after the flag was set.
C15_ScrollAfterZoomReached ==
  /\ obs.event = "wheel"
  /\ obs.flagDispatches = 0
  /\ Len(obs.moves) = 1
  /\ props.hasZoomedViaMousewheel
Deltas == {obs.deltas[i] : i \in 1..Len(obs.deltas)}

\* C16: the delta of a keyboard frame is 2000 pixels per second (2 per
\* millisecond) of the time since the previous keyboard frame, or since the
\* key-down that started the loop, and at most 500; every offset a
\* keyboard frame passes to moveViewport and every zoom exponent is at most
\* 500 in absolute value.
C16_KeyboardDeltaIsCapped ==
  /\ [](/\ \A d \in Deltas :
             /\ d.elapsed >= 0
             /\ d.delta = (IF 2 * d.elapsed <= 500 THEN 2 * d.elapsed ELSE 500)
             /\ Abs(d.delta) <= 500
        /\ obs.event = "animationFrame" =>
             \A m \in Moves :
               /\ Abs(m.offsetX) <= 500 /\ Abs(m.offsetY) <= 500
               /\ \E d \in Deltas :
                    {Abs(m.offsetX), Abs(m.offsetY)} = {0, d.delta})
  /\ [][/\ (obs'.event = "keydown" /\ Len(self.keysDown) = 0
            /\ Len(self'.keysDown) > 0) =>
             self'.lastKeyboardNavigationFrame = browser.now
        /\ Len(obs'.deltas) > 0 =>
             /\ self'.lastKeyboardNavigationFrame = browser'.now
             /\ obs'.deltas[1].elapsed =
                  browser'.now - self.lastKeyboardNavigationFrame
             /\ \A i \in 2..Len(obs'.deltas) : obs'.deltas[i].elapsed = 0
        /\ (Len(obs'.deltas) = 0
            /\ ~(obs'.event = "keydown" /\ Len(self.keysDown) = 0)) =>
             self'.lastKeyboardNavigationFrame =
               self.lastKeyboardNavigationFrame]_vars

\* A keyboard frame came 300 ms after the one before it and moved the
\* viewport by 500 pixels.
C16_Witness ==
  /\ \E d \in Deltas : 2 * d.elapsed > 500 /\ d.delta = 500
  /\ \E m \in Moves : Abs(m.offsetY) = 500
\* C17: getNormalizedScrollDelta answers, for the axis its key names, the
\* delta times pageHeight in page mode, the delta times 15 in line mode and
\* the delta itself in pixel mode and in every other mode.
C17_ScrollDeltaInPixels ==
  obs.event = "getNormalizedScrollDelta" =>
    LET delta == IF obs.key = "deltaX" THEN obs.wheel.deltaX
                 ELSE obs.wheel.deltaY
    IN  /\ obs.wheel.deltaMode = 2 => obs.result = delta * obs.pageHeight
        /\ obs.wheel.deltaMode = 1 => obs.result = delta * 15
        /\ obs.wheel.deltaMode \notin {1, 2} => obs.result = delta

\* The function was asked for deltaX of a page-mode event whose deltaY is
\* another number.
C17_Witness ==
  /\ obs.event = "getNormalizedScrollDelta"
  /\ obs.key = "deltaX"
  /\ obs.wheel.deltaMode = 2
  /\ obs.wheel.deltaX # obs.wheel.deltaY
  /\ obs.pageHeight # 0
  /\ obs.result = obs.wheel.deltaX * obs.pageHeight

\* The function was given a deltaMode it does not know.
C17_OtherModeReached ==
  /\ obs.event = "getNormalizedScrollDelta"
  /\ obs.wheel.deltaMode = 3
  /\ obs.result # 0
\* A zoom by factor 1/2 at center 1/2 of the whole range, with maximumZoom
\* at most 1/2.
HalvesWholeRange(a) ==
  /\ a.before = [viewportLeft |-> Zero, viewportRight |-> One]
  /\ a.update.zoomFactor = Q(1, 2)
  /\ a.update.center = Q(1, 2)
  /\ QLe(a.update.maximumZoom, Q(1, 2))

\* C18: from the full viewport [0, 1], a zoom with factor 0.5 at center 0.5
\* with maximumZoom <= 0.5 gives the viewport [0.25, 0.75] and returns a
\* selection with hasSelection true from a quarter to three quarters of the
\* committed range.
C18_ZoomToMiddleHalf ==
  \A a \in Zooms :
    HalvesWholeRange(a) =>
      /\ a.window = QuarterToThreeQuarters
      /\ a.result.hasSelection
      /\ a.result.selectionStart =
           Q(3 * props.timeRange.start + props.timeRange.end, 4)
      /\ a.result.selectionEnd =
           Q(props.timeRange.start + 3 * props.timeRange.end, 4)
      /\ getHorizontalViewport(a.result, props.timeRange) =
           QuarterToThreeQuarters

\* Such a zoom has run, and the host had no selection.
C18_Witness ==
  /\ \E a \in Zooms : HalvesWholeRange(a)
  /\ obs.applied[1].before = [viewportLeft |-> Zero, viewportRight |-> One]
  /\ HalvesWholeRange(obs.applied[1])
\* C19: a call of moveViewport while isSizeSet is false changes neither
\* viewportTop nor viewportBottom, nor anything else of the state, and
\* queues no preview-selection update, whatever the offsets.
C19_MoveBeforeSizeIsNoOp ==
  \A m \in Moves :
    ~m.before.isSizeSet =>
      /\ m.after.viewportTop = m.before.viewportTop
      /\ m.after.viewportBottom = m.before.viewportBottom
      /\ m.after = m.before
      /\ m.queued = 0

\* moveViewport was called with offsets other than 0 while the size was not
\* set.
C19_Witness ==
  \E m \in Moves :
    /\ ~m.before.isSizeSet
    /\ m.offsetX # 0
    /\ m.offsetY # 0
\* Where a vertical move by offsetY leaves the top of a viewport that fits
\* in the chart.
MovedTop(m) ==
  LET top == m.before.viewportTop - m.offsetY
      last == props.maxViewportHeight - m.before.containerHeight
  IN  IF top > last THEN last ELSE IF top < 0 THEN 0 ELSE top

\* C20: with disableHorizontalMovement set, no event queues a
\* preview-selection update, requests a flush, calls updatePreviewSelection
\* or dispatches setHasZoomedViaMousewheel, and the scroll hint is never
\* shown; a wheel event with ctrl or shift (one that does not reach
\* moveViewport) changes nothing; and moveViewport still moves the viewport
\* vertically.
C20_HorizontalMovementDisabled ==
  /\ [](props.disableHorizontalMovement =>
          /\ Len(self.pending) = 0
          /\ Requested("_flushPendingPreviewSelectionUpdates") = {}
          /\ Len(obs.calls) = 0 /\ Len(obs.applied) = 0
          /\ obs.flagDispatches = 0
          /\ ~state.isScrollHintVisible
          /\ \A m \in Moves :
               /\ m.queued = 0
               /\ (m.before.isSizeSet
                   /\ m.before.containerHeight <= props.maxViewportHeight) =>
                    m.after.viewportTop = MovedTop(m))
  /\ [][(props.disableHorizontalMovement /\ obs'.event = "wheel"
         /\ Len(obs'.moves) = 0) =>
          /\ state' = state
          /\ self' = self
          /\ props' = props
          /\ browser' = browser]_vars

\* With horizontal movement disabled, an unmodified wheel event has moved
\* the viewport vertically.
C20_Witness ==
  /\ props.disableHorizontalMovement
  /\ obs.event = "wheel"
  /\ \E m \in Moves : m.after.viewportTop # m.before.viewportTop

\* The same for a drag, for the keyboard, and a wheel event with ctrl or
\* shift.
C20_DragReached ==
  /\ props.disableHorizontalMovement
  /\ obs.event = "mousemove"
  /\ \E m \in Moves : m.after.viewportTop # m.before.viewportTop

C20_KeyboardReached ==
  /\ props.disableHorizontalMovement
  /\ obs.event = "animationFrame"
  /\ \E m \in Moves : m.after.viewportTop # m.before.viewportTop

C20_ModifiedWheelReached ==
  /\ props.disableHorizontalMovement
  /\ obs.event = "wheel"
  /\ Len(obs.moves) = 0

(***************************************************************************)
(* The key-up handler.  obs.keys holds the event of the last key-up with   *)
(* the pressed set before it.                                              *)
(***************************************************************************)
Held(keys) == {keys[i] : i \in 1..Len(keys)}

\* C21: a key-up removes from the pressed set the navigation keys both
\* keymaps give for the released code, removes zoomIn and zoomOut as well
\* when ctrl is not held, whichever key started the zoom, and adds no key.
C21_KeyUpRemovesKeys ==
  obs.event = "keyup" =>
    \A i \in 1..Len(obs.keys) :
      LET event == obs.keys[i].event
          before == Held(obs.keys[i].before)
          after == Held(self.keysDown)
      IN  /\ BARE_KEYMAP(event.code) \notin after
          /\ CTRL_KEYMAP(event.code) \notin after
          /\ ~event.ctrlKey => "zoomIn" \notin after /\ "zoomOut" \notin after
          /\ after \subseteq before

\* W is released without ctrl while Q, which started zoomIn, is still held:
\* zoomIn and up were pressed, and neither is afterwards.
C21_Witness ==
  /\ obs.event = "keyup"
  /\ Len(obs.keys) = 1
  /\ obs.keys[1].event.code = "KeyW"
  /\ ~obs.keys[1].event.ctrlKey
  /\ Held(obs.keys[1].before) = {"zoomIn", "up"}
  /\ self.keysDown = <<>>

\* ArrowDown is released with ctrl held: zoomOut goes and zoomIn stays.
C21_CtrlHeldReached ==
  /\ obs.event = "keyup"
  /\ Len(obs.keys) = 1
  /\ obs.keys[1].event.code = "ArrowDown"
  /\ obs.keys[1].event.ctrlKey
  /\ Held(obs.keys[1].before) = {"zoomIn", "zoomOut"}
  /\ self.keysDown = <<"zoomIn">>

(***************************************************************************)
(* The drag.  browser.lastMove holds the last mouse-move of the drag in    *)
(* progress, none before its first; obs.moves holds the offsets the        *)
(* mousemove listener handed to moveViewport.                              *)
(***************************************************************************)
\* C22: the first mouse-move of a drag moves the viewport by (0, 0) and
\* every later one by its position minus the position of the mouse-move
\* before it, also when the state was reset to defaults during the drag.
C22_DragOffsetsFollowPointer ==
  [][obs'.event = "mousemove" /\ Len(obs'.moves) = 1 =>
       LET position == browser'.lastMove[1]
           move == obs'.moves[1]
       IN  IF Len(browser.lastMove) = 0
             THEN move.offsetX = 0 /\ move.offsetY = 0
             ELSE /\ move.offsetX = position.clientX - browser.lastMove[1].clientX
                  /\ move.offsetY = position.clientY - browser.lastMove[1].clientY]_vars

\* The same for the drags in which the state was not reset since the last
\* mouse-move: isDragging is still true when the next one arrives.
C22_OffsetsWithoutReset ==
  [][obs'.event = "mousemove" /\ Len(obs'.moves) = 1
     /\ state.isDragging = (Len(browser.lastMove) > 0) =>
       LET position == browser'.lastMove[1]
           move == obs'.moves[1]
       IN  IF Len(browser.lastMove) = 0
             THEN move.offsetX = 0 /\ move.offsetY = 0
             ELSE /\ move.offsetX = position.clientX - browser.lastMove[1].clientX
                  /\ move.offsetY = position.clientY - browser.lastMove[1].clientY]_vars

\* Only a props update that resets the state ends isDragging during a drag.
C22_OnlyResetEndsDragging ==
  [][state.isDragging /\ Len(browser.lastMove) > 0
     /\ ~state'.isDragging /\ Len(browser'.lastMove) > 0 =>
       obs'.event = "props" /\ state' = getDefaultState(props')]_vars

(***************************************************************************)
(* The track context menu.                                                 *)
(***************************************************************************)
\* How many times an action is in a sequence of dispatched actions.
Count(dispatched, action) ==
  Cardinality({k \in 1..Len(dispatched) : dispatched[k] = action})

VisibleLocalTracks(p, pid) ==
  LocalTracksOfPid(pid) \ p.hiddenLocalTracksByPid[pid]

C23_VisibleParentReached ==
  /\ obs.event = "_toggleLocalTrackVisibility"
  /\ obs.data.globalTrackIndex \notin obs.before.hiddenGlobalTracks
  /\ obs.data.trackIndex \in obs.before.hiddenLocalTracksByPid[obs.data.pid]
  /\ Len(obs.dispatched) = 1
  /\ obs.data.trackIndex \in VisibleLocalTracks(props, obs.data.pid)

(***************************************************************************)
(* The hover preview.                                                      *)
(***************************************************************************)
\* The time under the mouse.
MouseTime(p, offsetX) ==
  QAdd(QMul(QDiv(I(offsetX), I(p.width)), I(p.rangeEnd - p.rangeStart)),
       I(p.rangeStart))

\* The indexes of the screenshots that start at or before a time.
StartedBy(screenshots, time) ==
  {i \in 0..(Len(screenshots) - 1) : QLe(screenshots[i + 1].start, time)}

OrderedByStart(screenshots) ==
  \A i, j \in 1..Len(screenshots) :
    i <= j => QLe(screenshots[i].start, screenshots[j].start)

C24_NullReached ==
  /\ obs.event = "findScreenshotAtMouse"
  /\ Len(props.screenshots) > 0
  /\ obs.result = <<>>

(***************************************************************************)
(* Props updates.  obs.received holds, for each call of                    *)
(* UNSAFE_componentWillReceiveProps in the last step, what                 *)
(* viewportNeedsUpdate answered and which props were new objects.          *)
(***************************************************************************)
\* C25: after a props update the horizontal viewport is
\* getHorizontalViewport of the new previewSelection and timeRange; an update
\* with a new previewSelection or timeRange and without viewportNeedsUpdate
\* changes nothing else of the state; an update with viewportNeedsUpdate
\* leaves the default state (not sized, not dragging, container 0 by 0) and
\* requests a frame for _setSize.
C25_PropsUpdate ==
  [][\A i \in 1..Len(obs'.received) :
       LET update == obs'.received[i]
           fromHost == obs'.event = "props"
       IN  /\ state'.horizontalViewport =
                getHorizontalViewport(props'.previewSelection, props'.timeRange)
           /\ (fromHost /\ ~update.needsUpdate
               /\ update.changed \cap {"previewSelection", "timeRange"} # {}) =>
                state' = [state EXCEPT
                            !.horizontalViewport = state'.horizontalViewport]
           /\ (fromHost /\ update.needsUpdate) =>
                /\ state' = getDefaultState(props')
                /\ ~state'.isSizeSet
                /\ ~state'.isDragging
                /\ state'.containerWidth = 0
                /\ state'.containerHeight = 0
                /\ Cardinality(Requested("_setSize")') >
                     Cardinality(Requested("_setSize"))]_vars

\* A new range with a selection in it arrives without viewportNeedsUpdate:
\* the window is the selection's, the container keeps its size.
C25_Witness ==
  /\ obs.event = "props"
  /\ Len(obs.received) = 1
  /\ ~obs.received[1].needsUpdate
  /\ "previewSelection" \in obs.received[1].changed
  /\ props.previewSelection.hasSelection
  /\ state.horizontalViewport =
       getHorizontalViewport(props.previewSelection, props.timeRange)
  /\ state.horizontalViewport # [viewportLeft |-> Zero, viewportRight |-> One]
  /\ state.isSizeSet

\* An update with viewportNeedsUpdate arrives in the middle of a drag.
C25_ResetReached ==
  /\ obs.event = "props"
  /\ Len(obs.received) = 1
  /\ obs.received[1].needsUpdate
  /\ browser.buttonDown
  /\ Len(browser.lastMove) = 1
  /\ state = getDefaultState(props)
  /\ Requested("_setSize") # {}

(***************************************************************************)
(* The scroll hint.                                                        *)
(***************************************************************************)
\* The last step was a wheel event without ctrl or shift: the only wheel
\* events that call moveViewport.
UnmodifiedWheel == obs.event = "wheel" /\ Len(obs.moves) = 1

\* An unmodified wheel event before the host has the flag, on a chart that
\* moves horizontally, shows the hint and sets one timer.
C26_WheelShowsHint ==
  [][(UnmodifiedWheel' /\ ~props.hasZoomedViaMousewheel
      /\ ~props.disableHorizontalMovement) =>
       /\ state'.isScrollHintVisible
       /\ self'.zoomScrollId = self.zoomScrollId + 1
       /\ browser'.timers = Append(browser.timers, self'.zoomScrollId)]_vars

\* A timer hides the hint when it is the timer of the last such wheel event
\* and leaves the hint as it is otherwise.
C26_TimerOfLastWheelHides ==
  [][obs'.event = "timeout" =>
       IF Head(browser.timers) = self.zoomScrollId
         THEN ~state'.isScrollHintVisible
         ELSE state'.isScrollHintVisible = state.isScrollHintVisible]_vars

\* Nothing but that timer hides the hint.
C26_OnlyTimerHides ==
  [][(state.isScrollHintVisible /\ ~state'.isScrollHintVisible) =>
       obs'.event = "timeout" /\ Head(browser.timers) = self.zoomScrollId]_vars

\* Wheel events keep arriving, or from some time on the hint is hidden.
C26_HintIsHiddenAtLast ==
  []<><<Wheel>>_vars \/ <>[](~state.isScrollHintVisible)

\* C26: every unmodified wheel event, while hasZoomedViaMousewheel is false
\* and horizontal movement is enabled, shows the scroll hint and starts a
\* timer; only the timer of the most recent such event hides the hint, an
\* earlier timer leaves it visible; once wheel events stop the hint is
\* hidden at last.
C26_ScrollHintIsDebounced ==
  /\ C26_WheelShowsHint
  /\ C26_TimerOfLastWheelHides
  /\ C26_OnlyTimerHides
  /\ C26_HintIsHiddenAtLast

\* The timer of the first of two wheel events has fired and the hint is
\* still visible, the timer of the second is still set.
C26_Witness ==
  /\ obs.event = "timeout"
  /\ self.zoomScrollId = 2
  /\ browser.timers = <<2>>
  /\ state.isScrollHintVisible

\* The timer of the second wheel event has fired and the hint is hidden.
C26_HiddenReached ==
  /\ obs.event = "timeout"
  /\ self.zoomScrollId = 2
  /\ browser.timers = <<>>
  /\ ~state.isScrollHintVisible

(***************************************************************************)
(* The frames of the keyboard navigation.                                  *)
(***************************************************************************)
\* C27: at most one _keyboardNavigation callback waits for the next frame,
\* whatever the order of key-down, key-up and animation-frame events.
C27_OneKeyboardFramePending ==
  Cardinality(Requested("_keyboardNavigation")) <= 1

\* Two callbacks wait while a key is held: both run in the next frame and
\* each requests the frame after it.
C27_TwoLoopsReached ==
  /\ obs.event = "animationFrame"
  /\ Len(obs.deltas) = 2
  /\ Cardinality(Requested("_keyboardNavigation")) = 2

=============================================================================
